---------------------------- MODULE Spec2Model ----------------------------
(***************************************************************************)
(* OrganizationsManager (src/management/OrganizationsManager.js): the      *)
(* constructor's validation of its options, the REST client and the retry  *)
(* decorator it builds, and the five operations bound onto the prototype.  *)
(*                                                                         *)
(* The constructor and the five bindings are translated from the source.   *)
(* utils.wrapPropertyMethod, Auth0RestClient and RetryRestClient live in   *)
(* other files of the repository; Invoke, Deliver, the clients' records,   *)
(* the retry policy and the responses model the behaviour the              *)
(* specification gives them.                                               *)
(***************************************************************************)
EXTENDS Naturals, Sequences, FiniteSets, Bags, TLC

VARIABLES
  state,         \* "new" | "constructed" | "failed": the constructor's position
  options,       \* the argument the constructor was called with
  thrown,        \* <<>> or <<error>>: what the constructor threw
  resource,      \* <<>> or <<client>>: this.resource
  restClients,   \* every Auth0RestClient constructed, in order
  retryClients,  \* every RetryRestClient constructed, in order
  calls          \* bag of the operation calls made on the manager

vars == <<state, options, thrown, resource, restClients, retryClients, calls>>

-----------------------------------------------------------------------------
(* Bounds                                                                  *)

\* Operation calls the caller makes on one manager.
MaxCalls == 2

\* Reissues the decorator's own default policy may make when options.retry
\* does not state one.
MaxRetries == 1

-----------------------------------------------------------------------------
(* JavaScript values: the result of typeof, and a tag that is the content  *)
(* of a string and the identity of anything else.                          *)

Val(type, tag) == [type |-> type, tag |-> tag]

Undefined == Val("undefined", "undefined")
Null      == Val("object", "null")
Str(s)    == Val("string", s)
Num(n)    == Val("number", n)
Bool(b)   == Val("boolean", b)
Fn(f)     == Val("function", f)
Obj(o)    == Val("object", o)

TypeOf(v) == v.type

\* An options argument: the value itself and, for an object, the four
\* properties the constructor reads (a property that is absent reads as
\* undefined).
Options(self, baseUrl, headers, tokenProvider, retry) ==
  [self |-> self, baseUrl |-> baseUrl, headers |-> headers,
   tokenProvider |-> tokenProvider, retry |-> retry]

Primitive(v) == Options(v, Undefined, Undefined, Undefined, Undefined)

\* A plain array: typeof gives "object", and it has no baseUrl property.
ArrayOptions == Primitive(Obj("[]"))

RetryOnce == Obj("{enabled:true,maxRetries:1}")
RetryOff  == Obj("{enabled:false}")

BaseUrlInputs ==
  { Undefined, Null, Str(""), Str("https://tenant.auth0.com/api/v2"),
    Str("http://localhost"), Num("0"), Num("42"), Bool("true"),
    Obj("new String('https://tenant.auth0.com')"), Obj("[]"), Fn("f") }

HeadersInputs == { Undefined, Obj("{'User-Agent':'node'}"), Str("headers"), Null }

TokenProviderInputs == { Undefined, Obj("tokenProvider"), Num("7") }

RetryInputs == { Undefined, RetryOnce, RetryOff, Num("5") }

OptionsInputs ==
  { Primitive(v) : v \in { Null, Undefined, Num("42"), Str("options"),
                           Str(""), Bool("false"), Fn("f") } }
  \cup { ArrayOptions }
  \cup { Options(Obj("{}"), b, h, t, r) :
           b \in BaseUrlInputs, h \in HeadersInputs,
           t \in TokenProviderInputs, r \in RetryInputs }

\* The options the operations are exercised with: the three retry policies,
\* every optional property absent, present and oddly shaped, and two
\* constructions that fail.
CallOptionsInputs ==
  { Options(Obj("{}"), Str("https://tenant.auth0.com/api/v2"),
            Undefined, Undefined, Undefined),
    Options(Obj("{}"), Str("http://localhost"),
            Obj("{'User-Agent':'node'}"), Obj("tokenProvider"), RetryOnce),
    Options(Obj("{}"), Str("http://localhost"), Str("headers"), Num("7"), RetryOff),
    Options(Obj("{}"), Str(""), Undefined, Undefined, Undefined),
    Primitive(Null) }

-----------------------------------------------------------------------------
(* The constructor                                                          *)

NoError == "no error"

ArgumentError(message) == [name |-> "ArgumentError", message |-> message]

\* ValidateOptions without the test of the base URL's length.
ValidateOptions_NoEmptyCheck(o) ==
  IF o.self = Null \/ TypeOf(o.self) # "object"
    THEN "Must provide manager options"
  ELSE IF o.baseUrl = Null \/ o.baseUrl = Undefined
    THEN "Must provide a base URL for the API"
  ELSE IF "string" # TypeOf(o.baseUrl)
    THEN "The provided base URL is invalid"
  ELSE NoError

\* ValidateOptions with a fourth check, of the shape of headers.
ValidateOptions_ChecksHeaders(o) ==
  IF o.self = Null \/ TypeOf(o.self) # "object"
    THEN "Must provide manager options"
  ELSE IF o.baseUrl = Null \/ o.baseUrl = Undefined
    THEN "Must provide a base URL for the API"
  ELSE IF "string" # TypeOf(o.baseUrl) \/ Len(o.baseUrl.tag) = 0
    THEN "The provided base URL is invalid"
  ELSE IF o.headers # Undefined /\ (o.headers = Null \/ TypeOf(o.headers) # "object")
    THEN "The provided headers are invalid"
  ELSE NoError

\* ValidateOptions with its second and third checks in the other order.
ValidateOptions_SwappedChecks(o) ==
  IF o.self = Null \/ TypeOf(o.self) # "object"
    THEN "Must provide manager options"
  ELSE IF "string" # TypeOf(o.baseUrl) \/ Len(o.baseUrl.tag) = 0
    THEN "The provided base URL is invalid"
  ELSE IF o.baseUrl = Null \/ o.baseUrl = Undefined
    THEN "Must provide a base URL for the API"
  ELSE NoError

\* Lines 25-35: the three checks in order; the first that fails gives the
\* message, and NoError means none failed.
ValidateOptions(o) ==
  IF o.self = Null \/ TypeOf(o.self) # "object"
    THEN "Must provide manager options"
  ELSE IF o.baseUrl = Null \/ o.baseUrl = Undefined
    THEN "Must provide a base URL for the API"
  ELSE IF "string" # TypeOf(o.baseUrl) \/ Len(o.baseUrl.tag) = 0
    THEN "The provided base URL is invalid"
  ELSE NoError

\* ClientOptions with parameter repetition left on.
ClientOptions_RepeatParams(o) ==
  [headers |-> o.headers, query |-> [repeatParams |-> TRUE]]

\* Lines 42-45.
ClientOptions(o) ==
  [headers |-> o.headers, query |-> [repeatParams |-> FALSE]]

\* Line 54.
UrlTemplate(o) == o.baseUrl.tag \o "/organizations/:id"

\* The generic REST client: it keeps what it was constructed with.
Auth0RestClient(url, clientOptions, tokenProvider) ==
  [url |-> url, options |-> clientOptions, tokenProvider |-> tokenProvider]

\* The retry decorator: the client it wraps and the retry configuration.
RetryRestClient(restClient, retry) ==
  [restClient |-> restClient, retry |-> retry]

\* Lines 24-59: new OrganizationsManager(o).
Construct(o) ==
  /\ state = "new"
  /\ options' = o
  /\ LET err == ValidateOptions(o) IN
       IF err # NoError
         THEN /\ state' = "failed"
              /\ thrown' = <<ArgumentError(err)>>
              /\ UNCHANGED <<resource, restClients, retryClients>>
         ELSE LET auth0RestClient ==
                    Auth0RestClient(UrlTemplate(o), ClientOptions(o), o.tokenProvider)
                  retryRestClient == RetryRestClient(auth0RestClient, o.retry)
              IN /\ restClients' = Append(restClients, auth0RestClient)
                 /\ retryClients' = Append(retryClients, retryRestClient)
                 /\ resource' = <<retryRestClient>>
                 /\ state' = "constructed"
                 /\ UNCHANGED thrown
  /\ UNCHANGED calls

Init ==
  /\ state = "new"
  /\ options = Primitive(Undefined)
  /\ thrown = <<>>
  /\ resource = <<>>
  /\ restClients = <<>>
  /\ retryClients = <<>>
  /\ calls = EmptyBag

NextConstruct == \E o \in OptionsInputs : Construct(o)

SpecConstruct == Init /\ [][NextConstruct]_vars

-----------------------------------------------------------------------------
(* The operations                                                           *)

\* The arguments a caller passes before the optional trailing callback.
\* get() without params is a caller's misuse of the operation.
ArgsInputs(name) ==
  CASE name = "create" -> { <<"{name:'acme'}">> }
    [] name = "getAll" -> { <<"{per_page:10,page:0}">> }
    [] name = "get"    -> { <<"{id:'org_123'}">>, <<>> }
    [] name = "update" -> { <<"{id:'org_123'}", "{name:'New name'}">> }
    [] name = "delete" -> { <<"{id:'org_123'}">> }

\* What the underlying client can fail with: a connectivity failure and a
\* non-2xx status.
Errors == { "ECONNREFUSED", "404 Not Found" }

\* The methods the REST client and the retry decorator expose.
ResourceMethods == { "create", "getAll", "get", "patch", "delete" }

\* The HTTP verb the REST client uses for each method.
VerbOf(method) ==
  CASE method = "create" -> "POST"
    [] method = "getAll" -> "GET"
    [] method = "get"    -> "GET"
    [] method = "patch"  -> "PATCH"
    [] method = "delete" -> "DELETE"
    [] OTHER             -> "none"

\* One request of the REST client: the verb, its URL template and the
\* arguments that fill the template, the query and the body.
Request(restClient, method, args) ==
  [verb |-> VerbOf(method), url |-> restClient.url, args |-> args,
   headers |-> restClient.options.headers]

\* The payload of a successful response.
ResultOf(method) ==
  CASE method = "create" -> "created record"
    [] method = "getAll" -> "array of records"
    [] method = "get"    -> "record"
    [] method = "patch"  -> "updated record"
    [] method = "delete" -> "undefined"
    [] OTHER             -> "undefined"

NoOutcome == [err |-> "pending", result |-> "pending"]
Success(method) == [err |-> "null", result |-> ResultOf(method)]
Failure(e) == [err |-> e, result |-> "undefined"]

NotDelivered == [channel |-> "none", settled |-> "pending",
                 err |-> "pending", result |-> "pending"]

\* Deliver reporting every outcome as a success.
Deliver_SwallowsErrors(cb, outcome) ==
  IF cb
    THEN [channel |-> "callback", settled |-> "called",
          err |-> "null", result |-> outcome.result]
    ELSE [channel |-> "promise", settled |-> "resolved",
          err |-> "null", result |-> outcome.result]

\* Deliver with a promise that resolves with the error instead of rejecting.
Deliver_PromiseAlwaysResolves(cb, outcome) ==
  IF cb
    THEN [channel |-> "callback", settled |-> "called",
          err |-> outcome.err, result |-> outcome.result]
    ELSE [channel |-> "promise", settled |-> "resolved",
          err |-> "null",
          result |-> IF outcome.err = "null" THEN outcome.result ELSE outcome.err]

\* The dual calling convention: with a trailing callback the outcome is
\* passed to it as (error, result); without one the promise the call
\* returned resolves with the result or rejects with the error.
Deliver(cb, outcome) ==
  IF cb
    THEN [channel |-> "callback", settled |-> "called",
          err |-> outcome.err, result |-> outcome.result]
    ELSE [channel |-> "promise",
          settled |-> IF outcome.err = "null" THEN "resolved" ELSE "rejected",
          err |-> outcome.err, result |-> outcome.result]

\* The reissues a retry configuration allows after a failed request. A
\* configuration that states no policy leaves it to the decorator's default,
\* which is any number up to MaxRetries here.
RetryLimits(retry) ==
  IF retry = RetryOnce THEN {1}
  ELSE IF retry = RetryOff THEN {0}
  ELSE 0..MaxRetries

MayRetry(retry, attempts) == \E l \in RetryLimits(retry) : attempts <= l
MaySurface(retry, attempts) == \E l \in RetryLimits(retry) : attempts > l

Put(c) == SetToBag({c})

\* utils.wrapPropertyMethod(Manager, name, 'property.method'): calling
\* manager[name](args..., cb) calls this[property][method] with the same
\* arguments. A method the property does not have is a TypeError at the call.
Invoke(name, path, args, cb) ==
  /\ state = "constructed"
  /\ BagCardinality(calls) < MaxCalls
  /\ LET property == path[1]
         method == path[2]
         found == property = "resource" /\ method \in ResourceMethods
         client == resource[1]
     IN calls' = calls (+) Put(
          [op |-> name, args |-> args, cb |-> cb,
           method |-> method, dargs |-> args,
           raised |-> IF found THEN "none" ELSE "TypeError",
           returned |-> IF ~found THEN "none"
                        ELSE IF cb THEN "undefined" ELSE "promise",
           status |-> IF found THEN "pending" ELSE "thrown",
           requests |-> IF found
                          THEN <<Request(client.restClient, method, args)>>
                          ELSE <<>>,
           outcome |-> NoOutcome, delivered |-> NotDelivered])
  /\ UNCHANGED <<state, options, thrown, resource, restClients, retryClients>>

\* Line 81.
create(args, cb) == Invoke("create", <<"resource", "create">>, args, cb)

\* getAll bound to the method that creates.
getAll_BoundToCreate(args, cb) ==
  Invoke("getAll", <<"resource", "create">>, args, cb)

\* Line 112.
getAll(args, cb) == Invoke("getAll", <<"resource", "getAll">>, args, cb)

\* Line 135.
get(args, cb) == Invoke("get", <<"resource", "get">>, args, cb)

\* update bound to the method that creates.
update_BoundToCreate(args, cb) ==
  Invoke("update", <<"resource", "create">>, args, cb)

\* update bound to a method the resource does not have.
update_BoundToMissing(args, cb) ==
  Invoke("update", <<"resource", "update">>, args, cb)

\* Line 172.
update(args, cb) == Invoke("update", <<"resource", "patch">>, args, cb)

\* delete held back while another call is on the manager.
delete_WaitsForIdle(args, cb) ==
  /\ calls = EmptyBag
  /\ Invoke("delete", <<"resource", "delete">>, args, cb)

\* Line 195.
delete(args, cb) == Invoke("delete", <<"resource", "delete">>, args, cb)

\* The response to the call's last request arrives and is a success.
Succeed(c) ==
  /\ c.status = "pending"
  /\ LET outcome == Success(c.method) IN
       calls' = (calls (-) Put(c)) (+) Put(
         [c EXCEPT !.status = "done", !.outcome = outcome,
                   !.delivered = Deliver(c.cb, outcome)])
  /\ UNCHANGED <<state, options, thrown, resource, restClients, retryClients>>

\* The call's last request fails and the decorator issues it again.
Retry(c) ==
  /\ c.status = "pending"
  /\ MayRetry(resource[1].retry, Len(c.requests))
  /\ calls' = (calls (-) Put(c)) (+) Put(
       [c EXCEPT !.requests =
          Append(@, Request(resource[1].restClient, c.method, c.dargs))])
  /\ UNCHANGED <<state, options, thrown, resource, restClients, retryClients>>

\* The call's last request fails with e and the decorator gives up.
Surface(c, e) ==
  /\ c.status = "pending"
  /\ MaySurface(resource[1].retry, Len(c.requests))
  /\ LET outcome == Failure(e) IN
       calls' = (calls (-) Put(c)) (+) Put(
         [c EXCEPT !.status = "done", !.outcome = outcome,
                   !.delivered = Deliver(c.cb, outcome)])
  /\ UNCHANGED <<state, options, thrown, resource, restClients, retryClients>>

Calls == BagToSet(calls)

Next ==
  \/ \E o \in CallOptionsInputs : Construct(o)
  \/ \E a \in ArgsInputs("create"), cb \in BOOLEAN : create(a, cb)
  \/ \E a \in ArgsInputs("getAll"), cb \in BOOLEAN : getAll(a, cb)
  \/ \E a \in ArgsInputs("get"), cb \in BOOLEAN : get(a, cb)
  \/ \E a \in ArgsInputs("update"), cb \in BOOLEAN : update(a, cb)
  \/ \E a \in ArgsInputs("delete"), cb \in BOOLEAN : delete(a, cb)
  \/ \E c \in Calls : Succeed(c)
  \/ \E c \in Calls : Retry(c)
  \/ \E c \in Calls, e \in Errors : Surface(c, e)

Spec == Init /\ [][Next]_vars

-----------------------------------------------------------------------------
(* Construction claims, checked under SpecConstruct                         *)

IsObject(v) == v # Null /\ v.type = "object"

Malformed(o) ==
  \/ ~IsObject(o.self)
  \/ o.baseUrl = Undefined
  \/ o.baseUrl = Null
  \/ o.baseUrl = Str("")
  \/ o.baseUrl.type # "string"

\* C1: whenever the constructor has been called with malformed options
\* (null, a non-object, baseUrl missing, null, empty or not a string), it has
\* thrown an ArgumentError, no REST client and no retry client was created
\* and this.resource was never assigned.
C1_MalformedOptionsFail ==
  (state # "new" /\ Malformed(options)) =>
    /\ state = "failed"
    /\ Len(thrown) = 1
    /\ thrown[1].name = "ArgumentError"
    /\ resource = <<>>
    /\ restClients = <<>>
    /\ retryClients = <<>>

C1_Witness ==
  /\ state = "failed"
  /\ IsObject(options.self)
  /\ options.baseUrl = Str("")
  /\ Len(thrown) = 1

Returned == \A c \in Calls : c.raised = "none"

CanCreate == ENABLED (\E a \in ArgsInputs("create"), cb \in BOOLEAN : create(a, cb) /\ Returned')
CanGetAll == ENABLED (\E a \in ArgsInputs("getAll"), cb \in BOOLEAN : getAll(a, cb) /\ Returned')
CanGet    == ENABLED (\E a \in ArgsInputs("get"), cb \in BOOLEAN : get(a, cb) /\ Returned')
CanUpdate == ENABLED (\E a \in ArgsInputs("update"), cb \in BOOLEAN : update(a, cb) /\ Returned')
CanDelete == ENABLED (\E a \in ArgsInputs("delete"), cb \in BOOLEAN : delete(a, cb) /\ Returned')

AllCallable == CanCreate /\ CanGetAll /\ CanGet /\ CanUpdate /\ CanDelete

C4_ClientsBuilt ==
  state = "constructed" =>
    /\ Len(restClients) = 1
    /\ restClients[1].url = options.baseUrl.tag \o "/organizations/:id"
    /\ restClients[1].options.headers = options.headers
    /\ restClients[1].options.query.repeatParams = FALSE
    /\ restClients[1].tokenProvider = options.tokenProvider
    /\ Len(retryClients) = 1
    /\ retryClients[1].restClient = restClients[1]
    /\ retryClients[1].retry = options.retry
    /\ resource = <<retryClients[1]>>

C4_Witness ==
  /\ state = "constructed"
  /\ options.headers = Obj("{'User-Agent':'node'}")
  /\ options.retry = RetryOnce
  /\ resource # <<>>
  /\ resource[1].restClient.url = "http://localhost/organizations/:id"

\* C10: the constructor's result is that of three checks taken in order,
\* the first that fails alone giving the error: options null or not an
\* object, then baseUrl null or undefined, then baseUrl not a string or
\* empty; exactly one of the three errors or success results, and an array
\* fails at the second check.
C10_FirstFailingCheck ==
  state # "new" =>
    LET first  == options.self = Null \/ options.self.type # "object"
        second == options.baseUrl = Null \/ options.baseUrl = Undefined
        third  == options.baseUrl.type # "string" \/ Len(options.baseUrl.tag) = 0
    IN /\ first =>
            thrown = <<ArgumentError("Must provide manager options")>>
       /\ (~first /\ second) =>
            thrown = <<ArgumentError("Must provide a base URL for the API")>>
       /\ (~first /\ ~second /\ third) =>
            thrown = <<ArgumentError("The provided base URL is invalid")>>
       /\ (~first /\ ~second /\ ~third) =>
            (thrown = <<>> /\ state = "constructed")
       /\ (state = "failed") = (thrown # <<>>)
       /\ options = ArrayOptions =>
            thrown = <<ArgumentError("Must provide a base URL for the API")>>

C10_Witness ==
  /\ state = "failed"
  /\ options = ArrayOptions
  /\ thrown = <<ArgumentError("Must provide a base URL for the API")>>

-----------------------------------------------------------------------------
(* Operation claims, checked under Spec                                     *)

Done == { c \in Calls : c.status = "done" }

MethodFor(op) ==
  CASE op = "create" -> "create"
    [] op = "getAll" -> "getAll"
    [] op = "get"    -> "get"
    [] op = "update" -> "patch"
    [] op = "delete" -> "delete"

VerbFor(op) ==
  CASE op = "create" -> "POST"
    [] op = "getAll" -> "GET"
    [] op = "get"    -> "GET"
    [] op = "update" -> "PATCH"
    [] op = "delete" -> "DELETE"

\* C3: every call of an operation is one call of its fixed method of
\* this.resource (create, getAll, get, patch, delete) with the caller's
\* arguments unchanged, every request made for it is that method's, and what
\* the caller is given is what that method gave.
C3_Passthrough ==
  \A c \in Calls :
    /\ c.raised = "none"
    /\ c.method = MethodFor(c.op)
    /\ c.dargs = c.args
    /\ \A i \in 1..Len(c.requests) :
         /\ c.requests[i].verb = VerbOf(MethodFor(c.op))
         /\ c.requests[i].args = c.args
    /\ c.status = "done" =>
         /\ c.delivered.err = c.outcome.err
         /\ c.delivered.result = c.outcome.result
         /\ c.outcome.err = "null" => c.outcome.result = ResultOf(MethodFor(c.op))

C3_Witness ==
  \E c \in Done :
    /\ c.op = "update"
    /\ c.method = "patch"
    /\ c.args = <<"{id:'org_123'}", "{name:'New name'}">>
    /\ c.cb
    /\ c.delivered.err = "null"
    /\ c.delivered.result = "updated record"

\* C5: a finished call made with a callback returned undefined and called
\* the callback with (error, result); one made without returned a promise
\* that resolved with the result where the callback would get (null, result)
\* and rejected with the error where it would get (error); so the two forms
\* of the same call with the same outcome deliver the same error and result.
C5_CallbackPromiseEquivalent ==
  /\ \A c \in Done :
       IF c.cb
         THEN /\ c.returned = "undefined"
              /\ c.delivered.channel = "callback"
              /\ c.delivered.err = c.outcome.err
              /\ c.delivered.result = c.outcome.result
         ELSE /\ c.returned = "promise"
              /\ c.delivered.channel = "promise"
              /\ c.outcome.err = "null" =>
                   /\ c.delivered.settled = "resolved"
                   /\ c.delivered.result = c.outcome.result
              /\ c.outcome.err # "null" =>
                   /\ c.delivered.settled = "rejected"
                   /\ c.delivered.err = c.outcome.err
  /\ \A c, d \in Done :
       (c.cb /\ ~d.cb /\ c.op = d.op /\ c.args = d.args /\ c.outcome = d.outcome) =>
         /\ (c.delivered.err = "null") = (d.delivered.settled = "resolved")
         /\ c.delivered.err = d.delivered.err
         /\ c.delivered.result = d.delivered.result

C5_Witness ==
  \E c, d \in Done :
    /\ c.cb /\ ~d.cb
    /\ c.op = d.op /\ c.args = d.args
    /\ c.outcome = d.outcome
    /\ c.outcome.err = "404 Not Found"
    /\ d.delivered.settled = "rejected"

\* C6: a call whose call of this.resource failed gives the caller that very
\* error, through the callback or the rejected promise, and no result: the
\* failure is not swallowed, replaced or turned into a success.
C6_ErrorsUnchanged ==
  \A c \in Done :
    c.outcome.err # "null" =>
      /\ c.outcome.err \in Errors
      /\ c.delivered.err = c.outcome.err
      /\ c.delivered.settled \in {"called", "rejected"}
      /\ c.delivered.result = "undefined"

C6_Witness ==
  \E c \in Done :
    /\ c.outcome.err = "ECONNREFUSED"
    /\ c.delivered.err = "ECONNREFUSED"
    /\ Len(c.requests) = 2

\* C7: the constructor's ArgumentError and the operations' errors never
\* meet: an error was thrown only by a construction that failed, after which
\* no operation runs; no operation call throws, and the error of a finished
\* call, a misused one included, is no ArgumentError and reached the caller
\* through the callback or the rejected promise.
C7_TwoErrorChannels ==
  /\ thrown # <<>> => (state = "failed" /\ calls = EmptyBag)
  /\ calls # EmptyBag => (state = "constructed" /\ thrown = <<>>)
  /\ \A c \in Calls :
       /\ c.raised = "none"
       /\ c.status # "thrown"
       /\ c.returned \in {"undefined", "promise"}
       /\ (c.status = "done" /\ c.outcome.err # "null") =>
            /\ c.delivered.err # "ArgumentError"
            /\ c.delivered.channel \in {"callback", "promise"}
            /\ c.delivered.settled \in {"called", "rejected"}

C7_Witness ==
  \E c \in Done :
    /\ c.op = "get"
    /\ c.args = <<>>
    /\ c.outcome.err # "null"
    /\ c.delivered.channel = "promise"
    /\ c.delivered.settled = "rejected"

\* C8 as stated: every call of an operation makes exactly one request
\* through the underlying client, also behind the retry decorator.
C8_ExactlyOneRequest ==
  \A c \in Calls : Len(c.requests) = 1

\* C8 as amended: every call of an operation is one call of this.resource
\* and makes at least one request through the underlying client, each with
\* the operation's verb (POST for create, GET for getAll and get, PATCH for
\* update, DELETE for delete); a request after the first is the retry
\* decorator reissuing a failed one as options.retry allows, and with retry
\* disabled there is exactly one.
C8_RequestsPerCall ==
  \A c \in Calls :
    /\ Len(c.requests) >= 1
    /\ \A i \in 1..Len(c.requests) : c.requests[i].verb = VerbFor(c.op)
    /\ Len(c.requests) > 1 => MayRetry(options.retry, Len(c.requests) - 1)
    /\ options.retry = RetryOff => Len(c.requests) = 1

C8_Witness ==
  \E c \in Done :
    /\ c.op = "create"
    /\ Len(c.requests) = 2
    /\ c.requests[2].verb = "POST"
    /\ options.retry = RetryOnce

InFlight == { c \in Calls : c.status = "pending" }

\* C9: on a constructed manager no step changes this.resource, the clients
\* or the options they were built from; while the caller has calls left,
\* each of the five operations can be called whatever calls are in flight or
\* finished; and two calls of the same operation with the same arguments are
\* delegated alike whatever happened between them.
C9_StatelessIndependent ==
  [][state = "constructed" =>
       /\ UNCHANGED <<state, options, thrown, resource, restClients, retryClients>>
       /\ BagCardinality(calls) < MaxCalls => AllCallable
       /\ \A c, d \in BagToSet(calls') :
            (c.op = d.op /\ c.args = d.args) =>
              /\ c.method = d.method
              /\ c.dargs = d.dargs
              /\ c.requests[1] = d.requests[1]]_vars

C9_Witness ==
  \E c, d \in Calls :
    /\ c.status = "done"
    /\ d.status = "pending"
    /\ c.op = d.op /\ c.args = d.args
    /\ c.outcome.err # "null"
    /\ state = "constructed"

=============================================================================
